---- MODULE Spec2Model ----
(***************************************************************************)
(* Leviathan STT/TTS brain: the overlay state / game-event announcement    *)
(* pipeline of src/cli.py, src/overlay/*.py and src/leviathan_brain.       *)
(*                                                                         *)
(* One process runs three kinds of threads: the main thread (manual --say  *)
(* or the push-to-talk loop), the daemon gamestate watcher, and the        *)
(* overlay HTTP server.  The files overlay/state.json, context.json,       *)
(* gamestate.json and gamestate.log outlive the process; everything else   *)
(* is process memory.                                                      *)
(***************************************************************************)
EXTENDS Naturals, Sequences, FiniteSets, TLC

VARIABLES
    log,            \* overlay/gamestate.log: the sequence of its lines
    gamestate,      \* overlay/gamestate.json: the last posted object
    context,        \* overlay/context.json: the Context Snapshot document
    response,       \* the latest HTTP request and what the server sent for it
    overlay,        \* overlay/state.json: the Overlay State document
    lock,           \* SPEECH_LOCK: the thread holding it, or NoHolder
    pc,             \* position of the main thread and of the watcher thread
    line,           \* the line each thread passes to _speak_with_overlay
    say,            \* args.say is set (manual --say) or not (push-to-talk)
    announced_ids,  \* _gamestate_loop's announced_ids set
    new_events,     \* _gamestate_loop's new_events of the latest poll cycle
    branch,         \* which classification branch the latest cycle took
    instruction,    \* the request the latest cycle handed to leviathan_reply
    result,         \* how each thread's latest _speak_with_overlay call ended
    placed,         \* history: times each key was put in a new_events batch
    failedKeys,     \* history: keys of the batches whose cycle failed
    seedLen,        \* history: length of the log the seeding pass read
    polled,         \* history: a poll cycle has run since the seeding pass
    scanned,        \* history: length of the log the latest poll cycle read
    stale,          \* history: the launch found the overlay in speak or think
    brain,          \* the reply generator called on its own: inputs and outcome
    writing,        \* the document each thread has opened state.json to write
    overlay_path,   \* args.overlay_path: where the operator put state.json
    hudlog          \* hud/gamestate.log: the sequence of its lines

vars == << log, gamestate, context, response, overlay, lock, pc, line, say,
           announced_ids, new_events, branch, instruction, result, placed,
           failedKeys, seedLen, polled, scanned, stale, brain,
           writing, overlay_path, hudlog >>

(***************************************************************************)
(* Bounds of the model.                                                    *)
(***************************************************************************)
MaxLog == 3

(***************************************************************************)
(* Python values.  NONE is Python's None (a missing dict key under .get).  *)
(***************************************************************************)
NONE == "<None>"

Truthy(v) == v \notin {NONE, ""}

PyOr(a, b) == IF Truthy(a) THEN a ELSE b

\* str(v) as an f-string renders it
Str(v) == IF v = NONE THEN "None" ELSE v

\* dict.get(key, default): the default replaces only a missing key
GetDefault(v, default) == IF v = NONE THEN default ELSE v

\* time.time() at the moment of a write, and the ts of the default documents
time_time == "now"

TsZero == "0"

(***************************************************************************)
(* JSON texts: a request body, a document file or a line of the log.  The  *)
(* field json tells what json.loads makes of the text: an object, another  *)
(* JSON value, or nothing (the text does not parse); "nofile" stands for a *)
(* file that does not exist.  A key the object lacks reads NONE.           *)
(***************************************************************************)
\* Path.exists()
exists(file) == file.json # "nofile"

\* json.loads(raw.decode(...)): raises on a text that is not JSON
\* the spellings of a JSON object: on one line, or spread over several
ObjectTexts == {"object", "pretty"}

\* json.loads(raw.decode(...)): raises on a text that is not JSON; the value
\* of an object text is the object, whatever its spelling
json_loads(text) ==
    [raised |-> text.json \notin ObjectTexts \cup {"array"},
     isdict |-> text.json \in ObjectTexts,
     value  |-> IF text.json \in ObjectTexts THEN [text EXCEPT !.json = "object"]
                ELSE text]

\* json.dumps(data, ensure_ascii=False): the object spelled on one line
json_dumps(data) == [data EXCEPT !.json = "object"]

(***************************************************************************)
(* Event records.  A winner is absent, a JSON object (possibly empty) or,  *)
(* against the data model, a JSON string.  ts is the object's ts key.      *)
(***************************************************************************)
WAbsent == [type |-> "absent", name |-> NONE, reason |-> NONE, str |-> ""]

WDict(n, r) == [type |-> "dict", name |-> n, reason |-> r, str |-> ""]

WStr(s) == [type |-> "str", name |-> NONE, reason |-> NONE, str |-> s]

Record(id, ev, w) ==
    [json |-> "object", event_id |-> id, event |-> ev, winner |-> w, ts |-> NONE]

\* a line of the log file that does not parse as a JSON object
GarbageLine == [Record(NONE, NONE, WAbsent) EXCEPT !.json = "garbage"]

\* a line, body or file that parses to a JSON value that is not an object
ArrayLine == [Record(NONE, NONE, WAbsent) EXCEPT !.json = "array"]

\* gamestate.json does not exist
NoGamestate == [Record(NONE, NONE, WAbsent) EXCEPT !.json = "nofile"]

P_Red == Record(NONE, "Red", WAbsent)

P_Blue == Record(NONE, "Blue", WDict(NONE, NONE))

P_IdRed == Record("e1", "Red", WAbsent)

P_Gold == Record(NONE, "Final", WDict("Gold", "last"))

P_Teal == Record(NONE, "Teal", WStr("Teal"))

P_NoKey == Record(NONE, NONE, WAbsent)

\* keyed by event_id alone: there is no event field to name
P_IdOnly == Record("e2", NONE, WAbsent)

\* the JSON objects a client posts to /gamestate
Payloads == {P_Red, P_Blue, P_IdRed, P_Gold, P_Teal, P_NoKey, P_IdOnly}

\* records that share an event_id or an event with P_IdRed
P_IdBlue == Record("e1", "Blue", WAbsent)

P_Id2Red == Record("e2", "Red", WAbsent)

\* winner records short of a name, of a reason, of an event field; the first
\* has an empty event_id
P_Silver == Record("", "Silver", WDict("", NONE))

P_Nameless == Record("e3", NONE, WDict(NONE, "last"))

\* the objects posted to tell records apart and to declare victories
EventPayloads == {P_IdRed, P_IdBlue, P_Id2Red, P_NoKey, P_Gold, P_Silver, P_Nameless}

\* the objects posted while the interactive paths are exercised
SpeechPayloads == {P_Red, P_Blue}

\* bool(winner): a non-empty dict or a non-empty string
WinnerTruthy(w) ==
    \/ w.type = "dict" /\ (w.name # NONE \/ w.reason # NONE)
    \/ w.type = "str" /\ w.str # ""

(***************************************************************************)
(* Overlay State documents (src/overlay/state.py).                         *)
(***************************************************************************)
OverlayFontSize == 30

write_state(mode, text, font_size) ==
    [json |-> "object", mode |-> mode, text |-> text, font_size |-> font_size,
     ts |-> time_time]

\* state.json does not exist
NoFile == [write_state("", "", 0) EXCEPT !.json = "nofile", !.ts = TsZero]

clear_state == write_state("clear", "", OverlayFontSize)

\* line 28, Path.write_text: open(path, "w") leaves the file empty, then one
\* write puts the text at its start.  A thread that has no file open:
NotWriting == [NoFile EXCEPT !.json = "closed"]

\* state.json right after open(path, "w")
Truncated == [NoFile EXCEPT !.json = "empty"]

\* a lower measure of len(text): the indicator "..." has 3 characters, a line
\* to speak has more
TextLen(text) == IF text = "" THEN 0 ELSE IF text = "..." THEN 3 ELSE 4

\* the file after `doc` is written at offset 0: a longer text that another
\* thread wrote since this thread's open keeps its tail after doc, which is
\* no JSON text
Overwrite(file, doc) ==
    IF file.json = "object" /\ TextLen(file.text) > TextLen(doc.text)
    THEN [doc EXCEPT !.json = "garbage"]
    ELSE doc

(***************************************************************************)
(* src/overlay/gamestate_store.py: read_gamestate_log keeps the lines that *)
(* parse as JSON objects, in file order.                                   *)
(***************************************************************************)
\* a reader that also takes the first part of an object's line for the object
IsObjectOrPrefix(l) == l.json \in ObjectTexts \cup {"partial"}

IsObject(l) ==
    LET obj == json_loads(l)
    IN  ~obj.raised /\ obj.isdict

\* a reader that gives up on the whole file at the first line it cannot use
ReadAllOrNothing(lines) ==
    IF \A i \in DOMAIN lines : IsObject(lines[i]) THEN lines ELSE << >>

\* lines 29-44; a file that does not exist reads like an empty one
read_gamestate_log(lines) == SelectSeq(lines, IsObject)

(***************************************************************************)
(* src/cli.py _gamestate_loop: identity key, seeding pass, scan of a poll  *)
(* cycle.                                                                  *)
(***************************************************************************)
\* an identity key that prefers the event field
EvtIdEventFirst(evt) == PyOr(evt.event, evt.event_id)

\* evt.get("event_id") or evt.get("event")
EvtId(evt) == PyOr(evt.event_id, evt.event)

\* the identity keys the posted objects can carry
Keys == {k \in {EvtId(p) : p \in Payloads \cup EventPayloads} : Truthy(k)}

RECURSIVE SeedIdOnly(_, _)
\* a seeding pass keyed on event_id alone
SeedIdOnly(events, ann) ==
    IF events = << >> THEN ann
    ELSE LET evt_id == Head(events).event_id
         IN  SeedIdOnly(Tail(events), IF Truthy(evt_id) THEN ann \cup {evt_id} ELSE ann)

RECURSIVE SeedMissesLast(_, _)
\* a seeding pass that stops short of the last record of the log
SeedMissesLast(events, ann) ==
    IF Len(events) <= 1 THEN ann
    ELSE LET evt_id == EvtId(Head(events))
         IN  SeedMissesLast(Tail(events),
                            IF Truthy(evt_id) THEN ann \cup {evt_id} ELSE ann)

RECURSIVE Seed(_, _)
\* lines 284-287: every truthy key of the log goes into announced_ids
Seed(events, ann) ==
    IF events = << >> THEN ann
    ELSE LET evt_id == EvtId(Head(events))
         IN  Seed(Tail(events), IF Truthy(evt_id) THEN ann \cup {evt_id} ELSE ann)

RECURSIVE ScanNoMark(_, _, _)
\* a scan that collects new records without marking their keys
ScanNoMark(events, ann, out) ==
    IF events = << >> THEN [announced |-> ann, new_events |-> out]
    ELSE LET evt    == Head(events)
             evt_id == EvtId(evt)
         IN  IF Truthy(evt_id) /\ evt_id \notin ann
             THEN ScanNoMark(Tail(events), ann, Append(out, evt))
             ELSE ScanNoMark(Tail(events), ann, out)

RECURSIVE ScanKeepFirst(_, _, _)
\* a scan that marks every new key and collects the first new record only
ScanKeepFirst(events, ann, out) ==
    IF events = << >> THEN [announced |-> ann, new_events |-> out]
    ELSE LET evt    == Head(events)
             evt_id == EvtId(evt)
         IN  IF Truthy(evt_id) /\ evt_id \notin ann
             THEN ScanKeepFirst(Tail(events), ann \cup {evt_id},
                                IF out = << >> THEN << evt >> ELSE out)
             ELSE ScanKeepFirst(Tail(events), ann, out)

RECURSIVE Scan(_, _, _)
\* lines 292-297: in file order, a record whose key is truthy and not yet
\* announced is marked and appended to new_events
Scan(events, ann, out) ==
    IF events = << >> THEN [announced |-> ann, new_events |-> out]
    ELSE LET evt    == Head(events)
             evt_id == EvtId(evt)
         IN  IF Truthy(evt_id) /\ evt_id \notin ann
             THEN Scan(Tail(events), ann \cup {evt_id}, Append(out, evt))
             ELSE Scan(Tail(events), ann, out)

(***************************************************************************)
(* src/cli.py _gamestate_loop lines 299-321: classification of a batch.    *)
(***************************************************************************)
VictoryInstruction(wname, reason) ==
    "Declare victory: " \o Str(wname) \o " wins. Reason: " \o Str(reason)
        \o ". Include the winner name verbatim and clearly."

SingleInstruction(event) ==
    "Announce clearly the elimination: " \o Str(event)
        \o ". Include the team name verbatim."

BatchInstruction(joined) ==
    "Announce clearly these eliminations together: " \o joined
        \o ". Include each team name verbatim."

RECURSIVE JoinReversed(_)
\* a join that puts the latest name first
JoinReversed(names) ==
    IF names = << >> THEN ""
    ELSE IF Len(names) = 1 THEN Head(names)
    ELSE JoinReversed(Tail(names)) \o "; " \o Head(names)

RECURSIVE Join(_)
\* "; ".join(names)
Join(names) ==
    IF names = << >> THEN ""
    ELSE IF Len(names) = 1 THEN Head(names)
    ELSE Head(names) \o "; " \o Join(Tail(names))

HasWinner(e) == WinnerTruthy(e.winner)

HasEvent(e) == Truthy(e.event)

EventOf(e) == e.event

RECURSIVE Names(_)
\* [e.get("event", "") for e in new_events if e.get("event")]
Names(events) ==
    IF events = << >> THEN << >>
    ELSE IF HasEvent(Head(events))
         THEN << EventOf(Head(events)) >> \o Names(Tail(events))
         ELSE Names(Tail(events))

\* lines 304-309; w.get raises AttributeError when winner is not a dict
VictoryOf(winner_event) ==
    LET w == winner_event.winner
    IN  IF w.type # "dict"
        THEN [raised |-> TRUE, branch |-> "raised", instruction |-> ""]
        ELSE [raised |-> FALSE, branch |-> "victory",
              instruction |->
                  VictoryInstruction(
                      PyOr(w.name, GetDefault(winner_event.event, "Unknown victor")),
                      PyOr(w.reason, ""))]

\* classification with the batch size tested before the winner
ClassifySizeFirst(events) ==
    IF Len(events) = 1
    THEN [raised |-> FALSE, branch |-> "single",
          instruction |-> SingleInstruction(events[1].event)]
    ELSE IF SelectSeq(events, HasWinner) # << >>
    THEN VictoryOf(Head(SelectSeq(events, HasWinner)))
    ELSE [raised |-> FALSE, branch |-> "batch",
          instruction |-> BatchInstruction(Join(Names(events)))]

\* a classification that handles one record like any other batch
ClassifyNeverSingle(events) ==
    IF SelectSeq(events, HasWinner) # << >>
    THEN VictoryOf(Head(SelectSeq(events, HasWinner)))
    ELSE [raised |-> FALSE, branch |-> "batch",
          instruction |-> BatchInstruction(Join(Names(events)))]

\* a classification whose victory instruction goes on to list the batch
ClassifyNamesAll(events) ==
    IF SelectSeq(events, HasWinner) # << >>
    THEN LET v == VictoryOf(Head(SelectSeq(events, HasWinner)))
         IN  [v EXCEPT !.instruction = @ \o " " \o BatchInstruction(Join(Names(events)))]
    ELSE IF Len(events) = 1
    THEN [raised |-> FALSE, branch |-> "single",
          instruction |-> SingleInstruction(events[1].event)]
    ELSE [raised |-> FALSE, branch |-> "batch",
          instruction |-> BatchInstruction(Join(Names(events)))]

\* a classification that takes the latest winner record of the batch
ClassifyLastWinner(events) ==
    LET winners == SelectSeq(events, HasWinner)
    IN  IF winners # << >>
        THEN VictoryOf(winners[Len(winners)])
        ELSE IF Len(events) = 1
        THEN [raised |-> FALSE, branch |-> "single",
              instruction |-> SingleInstruction(events[1].event)]
        ELSE [raised |-> FALSE, branch |-> "batch",
              instruction |-> BatchInstruction(Join(Names(events)))]

\* lines 302-321, for a non-empty new_events; the winner_event of line 302 is
\* the first record of the batch with a truthy winner
Classify(events) ==
    IF SelectSeq(events, HasWinner) # << >>
    THEN VictoryOf(Head(SelectSeq(events, HasWinner)))
    ELSE IF Len(events) = 1
    THEN [raised |-> FALSE, branch |-> "single",
          instruction |-> SingleInstruction(events[1].event)]
    ELSE [raised |-> FALSE, branch |-> "batch",
          instruction |-> BatchInstruction(Join(Names(events)))]

(***************************************************************************)
(* src/leviathan_brain: LeviathanBrain.reply tries the backend the         *)
(* provider selects; a backend that raises, or answers nothing, falls back *)
(* to the persona line built around the request.                           *)
(***************************************************************************)
\* user_request.strip(): the requests of the model, without their margins
strip(text) ==
    IF text \in {"", "  "} THEN ""
    ELSE IF text = " hail " THEN "hail"
    ELSE text

\* lines 44-54: the lists random.choice draws from
Openers ==
    {"We are Code Leviathan.", "The abyss answers (with a grin).",
     "Leviathan stirs, keep up.", "Your code tides shift; so does our mood."}

Tones == {"Brief, with bite.", "Pointed, a smirk implied.",
          "Dry humor only; no flattery."}

\* lines 55-56: f"{opener} {text}{ctx} {tone}"
persona(opener, text, ctx, tone) ==
    opener \o " " \o text
        \o (IF Truthy(ctx) THEN " Context: " \o ctx \o "." ELSE "")
        \o " " \o tone

\* _persona_only without a context, for one draw of opener and tone
persona_only(text) == persona("We are Code Leviathan.", text, NONE, "Brief, with bite.")

\* what a backend call comes to: a text, an empty text, or an exception
\* (no server, HTTP error, no API key, a response that does not parse)
Outcomes == {"ok", "empty", "raise"}

\* lines 58-81 and 83-121: a backend's answer is stripped, and an empty one is
\* replaced by the persona line inside the backend call
backend_chat(outcome, text, fallback) ==
    [raised |-> outcome = "raise",
     value  |-> IF outcome = "ok" THEN "LLM: " \o text ELSE fallback]

\* line 31
UsesOllama(provider) == provider \in {"ollama", "local"}

\* an openai branch entered whatever the provider, once ollama gave no answer
UsesOpenaiAsFallback(provider) == TRUE

\* line 36
UsesOpenai(provider) == provider = "openai"

\* line 30: user_request.strip() or "Speak, mortal."
RequestText(user_request) == PyOr(strip(user_request), "Speak, mortal.")

\* lines 29-41; `outcome` gives what each backend would do if it were called,
\* `fallback` is the persona line this call would build.  Both handlers are
\* `except Exception`, so the exception of a backend ends there.
reply(provider, user_request, outcome, fallback) ==
    LET text   == RequestText(user_request)
        ollama == backend_chat(outcome["ollama"], text, fallback)
        openai == backend_chat(outcome["openai"], text, fallback)
        first  == IF UsesOllama(provider) THEN << "ollama" >> ELSE << >>
    IN  IF UsesOllama(provider) /\ ~ollama.raised
        THEN [tried |-> first, raised |-> FALSE, value |-> ollama.value]
        ELSE IF UsesOpenai(provider)
        THEN [tried  |-> Append(first, "openai"), raised |-> FALSE,
              value  |-> IF openai.raised THEN fallback ELSE openai.value]
        ELSE [tried |-> first, raised |-> FALSE, value |-> fallback]

\* lines 181-185 under the default provider (settings.py line 48: "local"),
\* without a context: the ollama backend answers (backendOk) or raises
leviathan_reply(text, backendOk) ==
    reply("local", text,
          [b \in {"ollama", "openai"} |-> IF backendOk THEN "ok" ELSE "raise"],
          persona_only(RequestText(text))).value

(***************************************************************************)
(* Paths.  The operator names the overlay state file (--overlay-path); the *)
(* server puts its other files next to it, the watcher reads a fixed path. *)
(***************************************************************************)
\* src/cli.py line 42: the default of --overlay-path
DefaultOverlayPath == "overlay/state.json"

\* the state paths that are configured: all end in .json, so main starts the
\* server (line 94)
OverlayPaths == {"overlay/state.json", "overlay/hud.json", "hud/state.json"}

\* Path(state_path).parent
Parent(state_path) == IF state_path = "hud/state.json" THEN "hud" ELSE "overlay"

\* src/overlay/server.py line 207: state_path.parent / "gamestate.log"
GamestateLogPath(state_path) == Parent(state_path) \o "/gamestate.log"

\* src/cli.py lines 284 and 293: the path _gamestate_loop reads
WatcherLogPath == "overlay/gamestate.log"

(***************************************************************************)
(* Threads, the speech lock and process lifetime.                          *)
(***************************************************************************)
Threads == {"main", "watcher"}

NoHolder == "free"

\* positions of a thread inside the with-block of _speak_with_overlay
Critical == {"render", "play", "speaking", "delay", "release"}

\* the process is not running: never launched, returned, died or was killed
Stopped == {"boot", "done", "crashed", "killed"}

Running == pc["main"] \notin Stopped

ZeroPlaced == [k \in Keys |-> 0]

RECURSIVE KeysOf(_)
\* the identity keys of a batch
KeysOf(events) ==
    IF events = << >> THEN {}
    ELSE {EvtId(Head(events))} \cup KeysOf(Tail(events))

\* number of records of a batch whose key is k
CountKey(events, k) ==
    LET Is(e) == EvtId(e) = k
    IN  Len(SelectSeq(events, Is))

\* process memory as a fresh interpreter has it
FreshMemory ==
    /\ lock' = NoHolder
    /\ announced_ids' = {}
    /\ new_events' = << >>
    /\ branch' = "none"
    /\ instruction' = ""
    /\ placed' = ZeroPlaced
    /\ failedKeys' = {}
    /\ seedLen' = 0
    /\ polled' = FALSE
    /\ scanned' = 0
    /\ writing' = [t \in Threads |-> NotWriting]

\* a fresh install has no files; a log left by an earlier writer may hold a
\* line that does not parse, or one that parses to something else than an
\* object
InitLogs == {<< >>, << GarbageLine >>, << P_Red, ArrayLine >>}

\* context.json: absent, or an object with some of its keys
Snapshot(url, selection, ts) ==
    [json |-> "object", url |-> url, selection |-> selection, ts |-> ts]

NoContext == [Snapshot(NONE, NONE, NONE) EXCEPT !.json = "nofile"]

\* the configurations, requests and contexts the reply generator is tried on
Providers == {"ollama", "local", "openai", "claude"}

Requests == {"hail", " hail ", "  ", ""}

Contexts == {NONE, "docs"}

Backends == {"ollama", "openai"}

\* the reply generator has not been called
NoCall ==
    [provider |-> "local", request |-> "", context |-> NONE,
     outcome |-> [b \in Backends |-> "raise"], called |-> FALSE,
     tried |-> << >>, raised |-> FALSE, fallback |-> "", value |-> ""]

\* a response without a body, and the time before the first request
NoBody == [json |-> "nobody"]

NoResponse == [route |-> "", request |-> NoBody, status |-> << >>, body |-> NoBody]

Init ==
    /\ log \in InitLogs
    /\ gamestate = NoGamestate
    /\ context = NoContext
    /\ response = NoResponse
    /\ overlay = NoFile
    /\ lock = NoHolder
    /\ pc = [t \in Threads |-> IF t = "main" THEN "boot" ELSE "off"]
    /\ line = [t \in Threads |-> ""]
    /\ say = FALSE
    /\ announced_ids = {}
    /\ new_events = << >>
    /\ branch = "none"
    /\ instruction = ""
    /\ result = [t \in Threads |-> "none"]
    /\ placed = ZeroPlaced
    /\ failedKeys = {}
    /\ seedLen = 0
    /\ polled = FALSE
    /\ scanned = 0
    /\ stale = FALSE
    /\ brain = NoCall
    /\ writing = [t \in Threads |-> NotWriting]
    /\ overlay_path = DefaultOverlayPath
    /\ hudlog = << >>

\* the text given with --say, and what a recording can transcribe to
SayText == "hail"

Transcripts == {"hello"}

(***************************************************************************)
(* src/cli.py main, lines 93-110: start the overlay server, clear the      *)
(* overlay, start the watcher thread, then --say or the push-to-talk loop. *)
(* The overlay path is the default overlay/state.json, so the server runs  *)
(* and appends to the log the watcher polls.                               *)
(***************************************************************************)
\* a startup that leaves the overlay document as it finds it
StartupKeep(doc) == doc

\* line 96: clear_state(args.overlay_path)
StartupOverlay(doc) == clear_state

Launch(s) ==
    /\ pc["main"] \in Stopped
    /\ overlay' = StartupOverlay(overlay)
    /\ stale' = (overlay.mode \in {"speak", "think"})
    /\ say' = s
    /\ FreshMemory
    /\ result' = [t \in Threads |-> "none"]
    /\ \E backendOk \in BOOLEAN :
           line' = [t \in Threads |->
                       IF t = "main" /\ s THEN leviathan_reply(SayText, backendOk) ELSE ""]
    /\ pc' = [t \in Threads |->
                 IF t = "watcher" THEN "seed" ELSE IF s THEN "acquire" ELSE "record"]
    /\ UNCHANGED << log, gamestate >>
    /\ UNCHANGED << context, response, brain, overlay_path, hudlog >>

\* line 82, parser.parse_args: the operator gives --overlay-path for the
\* launch that follows
parse_args(path) ==
    /\ pc["main"] \in Stopped
    /\ overlay_path' = path
    /\ UNCHANGED << log, gamestate, context, response, overlay, lock, pc, line,
                    say, announced_ids, new_events, branch, instruction,
                    result, placed, failedKeys, seedLen, polled, scanned,
                    stale, brain, writing, hudlog >>

\* the process ends with `status`; its threads and memory are gone
Exit(status) ==
    /\ pc' = [t \in Threads |-> IF t = "main" THEN status ELSE "off"]
    /\ FreshMemory
    /\ line' = [line EXCEPT !["watcher"] = ""]

\* the operator kills the running process
Terminate ==
    /\ Running
    /\ Exit("killed")
    /\ UNCHANGED << log, gamestate, overlay, say, result >>
    /\ UNCHANGED << context, response, stale, brain, overlay_path, hudlog >>

(***************************************************************************)
(* src/overlay/server.py: the HTTP handlers.  They run in the server       *)
(* thread of the CLI process, or in the process of server.py main.         *)
(***************************************************************************)
\* lines 155-191: the overlay server run on its own
server_main ==
    /\ pc["main"] \in Stopped
    /\ pc' = [pc EXCEPT !["main"] = "serve"]
    /\ UNCHANGED << log, gamestate, context, response, overlay, lock, line,
                    say, announced_ids, new_events, branch, instruction,
                    result, placed, failedKeys, seedLen, polled, scanned >>
    /\ UNCHANGED << stale, brain, writing, overlay_path, hudlog >>

\* is key k of a loaded object there
Present(k, v) ==
    IF k = "winner" THEN v.type # "absent"
    ELSE IF k = "font_size" THEN TRUE
    ELSE v # NONE

\* data.update(loaded): the keys of loaded replace or extend those of data
Update(data, loaded) ==
    [k \in (DOMAIN data \cup DOMAIN loaded) \ {"json"} |->
        IF k \in DOMAIN loaded /\ Present(k, loaded[k]) THEN loaded[k]
        ELSE IF k \in DOMAIN data THEN data[k]
        ELSE loaded[k]]

\* a document that is served as it stands
ServeUnchecked(data, file) == Update(data, file)

\* lines 59-66, 78-85, 113-120: the default, updated with the file's object
\* when the file exists, parses and is an object; any exception is swallowed
Serve(data, file) ==
    IF ~exists(file) THEN data
    ELSE LET loaded == json_loads(file)
         IN  IF loaded.raised THEN data
             ELSE IF loaded.isdict THEN Update(data, loaded.value)
             ELSE data

\* line 58
DefaultState == [mode |-> "clear", text |-> "", font_size |-> 30, ts |-> TsZero]

\* line 77
DefaultContext == [url |-> "", selection |-> "", ts |-> TsZero]

\* line 112: {}
DefaultGamestate == [k \in {} |-> NONE]

\* lines 57-74
serve_state ==
    /\ Running
    /\ response' = [route |-> "GET /state", request |-> NoBody, status |-> << 200 >>,
                    body |-> Serve(DefaultState, overlay)]
    /\ UNCHANGED << log, gamestate, context, overlay, lock, pc, line, say,
                    announced_ids, new_events, branch, instruction, result,
                    placed, failedKeys, seedLen, polled, scanned >>
    /\ UNCHANGED << stale, brain, writing, overlay_path, hudlog >>

\* lines 76-93
serve_context ==
    /\ Running
    /\ response' = [route |-> "GET /context", request |-> NoBody, status |-> << 200 >>,
                    body |-> Serve(DefaultContext, context)]
    /\ UNCHANGED << log, gamestate, context, overlay, lock, pc, line, say,
                    announced_ids, new_events, branch, instruction, result,
                    placed, failedKeys, seedLen, polled, scanned >>
    /\ UNCHANGED << stale, brain, writing, overlay_path, hudlog >>

\* lines 111-128
serve_gamestate ==
    /\ Running
    /\ response' = [route |-> "GET /gamestate", request |-> NoBody, status |-> << 200 >>,
                    body |-> Serve(DefaultGamestate, gamestate)]
    /\ UNCHANGED << log, gamestate, context, overlay, lock, pc, line, say,
                    announced_ids, new_events, branch, instruction, result,
                    placed, failedKeys, seedLen, polled, scanned >>
    /\ UNCHANGED << stale, brain, writing, overlay_path, hudlog >>

\* a handler that takes any JSON value for a payload
AcceptsAnyJson(data) == ~data.raised

\* lines 99-101 and 134-136: the body parsed and is an object
Accepts(data) == ~data.raised /\ data.isdict

\* a write that merges the posted keys into the stored document
ContextMerged(old, data) ==
    IF exists(old) /\ Accepts(json_loads(old))
    THEN json_dumps([k \in DOMAIN data |->
                        IF k # "json" /\ Present(k, data[k]) THEN data[k] ELSE old[k]])
    ELSE json_dumps(data)

\* line 103: write_text replaces the whole file with the dumped object
ContextWritten(old, data) == json_dumps(data)

\* the three JSON documents next to each other in the overlay directory
DocumentNames == {"state.json", "context.json", "gamestate.json"}

Documents ==
    [f \in DocumentNames |->
        IF f = "state.json" THEN overlay
        ELSE IF f = "context.json" THEN context
        ELSE gamestate]

\* Path.write_text(text) on the file `path`
write_text(files, path, text) == [files EXCEPT ![path] = text]

\* a server whose context path is the gamestate document
ContextPathShared(state_path) == "gamestate.json"

\* lines 161 and 205: the default overlay/context.json, that is
\* state_path.parent / "context.json"
ContextPath(state_path) == "context.json"

\* lines 95-109, and do_POST lines 49-55: after receive_context returns,
\* do_POST goes on to send_response(404)
receive_context(raw) ==
    /\ Running
    /\ LET data == json_loads(raw)
       IN  IF Accepts(data)
           THEN /\ LET files == write_text(Documents, ContextPath("state.json"),
                                           ContextWritten(context, data.value))
                   IN  /\ overlay' = files["state.json"]
                       /\ context' = files["context.json"]
                       /\ gamestate' = files["gamestate.json"]
                /\ response' = [route |-> "POST /context", request |-> raw, status |-> << 204, 404 >>,
                                body |-> NoBody]
           ELSE /\ response' = [route |-> "POST /context", request |-> raw, status |-> << 400, 404 >>,
                                body |-> NoBody]
                /\ UNCHANGED << context, gamestate, overlay >>
    /\ UNCHANGED << log, lock, pc, line, say,
                    announced_ids, new_events, branch, instruction, result,
                    placed, failedKeys, seedLen, polled, scanned >>
    /\ UNCHANGED << stale, brain, writing, overlay_path, hudlog >>

\* a log that is rewritten with the latest payload only
LogOverwritten(lines, data) == << json_dumps(data) >>

\* lines 140-141: open(..., "a") and one write of the dumped object and "\n"
LogAppended(lines, data) == Append(lines, json_dumps(data))

\* line 138: the document written to gamestate.json
Stored(data) == json_dumps(data)

\* lines 130-147: overwrite gamestate.json with the posted object and append
\* it as one line to the log; a body that does not parse to an object is
\* answered 400
receive_gamestate(raw) ==
    /\ Running
    /\ LET data == json_loads(raw)
       IN  IF Accepts(data)
           THEN /\ gamestate' = Stored(data.value)
                /\ IF GamestateLogPath(overlay_path) = WatcherLogPath
                   THEN /\ Len(log) < MaxLog
                        /\ log' = LogAppended(log, data.value)
                        /\ UNCHANGED hudlog
                   ELSE /\ Len(hudlog) < MaxLog
                        /\ hudlog' = LogAppended(hudlog, data.value)
                        /\ UNCHANGED log
                /\ response' = [route |-> "POST /gamestate", request |-> raw, status |-> << 204 >>,
                                body |-> NoBody]
           ELSE /\ response' = [route |-> "POST /gamestate", request |-> raw, status |-> << 400 >>,
                                body |-> NoBody]
                /\ UNCHANGED << log, gamestate, hudlog >>
    /\ UNCHANGED << context, overlay, lock, pc, line, say, announced_ids,
                    new_events, branch, instruction, result, placed,
                    failedKeys, seedLen, polled, scanned >>
    /\ UNCHANGED << stale, brain, writing, overlay_path >>

\* lines 130-147 when the open or the write of lines 140-141 raises OSError (the
\* log is not writable, the disk is full): gamestate.json is already written
\* (line 138), the handler of line 143 answers 400
receive_gamestate_oserror(raw) ==
    /\ Running
    /\ Accepts(json_loads(raw))
    /\ gamestate' = Stored(json_loads(raw).value)
    /\ response' = [route |-> "POST /gamestate", request |-> raw, status |-> << 400 >>,
                    body |-> NoBody]
    /\ UNCHANGED << log, context, overlay, lock, pc, line, say, announced_ids,
                    new_events, branch, instruction, result, placed,
                    failedKeys, seedLen, polled, scanned >>
    /\ UNCHANGED << stale, brain, writing, overlay_path, hudlog >>

(***************************************************************************)
(* The append of lines 140-141 as the file sees it when the line is longer *)
(* than the writer's buffer: a first part of the line reaches the file,    *)
(* the rest and the newline follow.                                        *)
(***************************************************************************)
\* the line of `data` with only a first part written: no JSON text
Partial(data) == [json_dumps(data) EXCEPT !.json = "partial"]

\* the log ends in a line that is still being written
Appending(lines) == lines # << >> /\ lines[Len(lines)].json = "partial"

\* a server that gives every request its own thread
HandlesInParallel(lines) == TRUE

\* lines 219-220: HTTPServer.serve_forever in one thread takes the next
\* request when the handler of the previous one has returned
HandlesOneAtATime(lines) == ~Appending(lines)

\* the file after the first part of the line is written at its end: after an
\* unfinished line of another writer the two run into one line
LogBegun(lines, data) ==
    IF Appending(lines)
    THEN [lines EXCEPT ![Len(lines)] = GarbageLine]
    ELSE Append(lines, Partial(data))

\* the file after the rest of the line and its newline are written
LogCompleted(lines) == [lines EXCEPT ![Len(lines)].json = "object"]

\* lines 130-141 up to the first part of the appended line
append_begin(raw) ==
    /\ Running
    /\ HandlesOneAtATime(log)
    /\ Accepts(json_loads(raw))
    /\ Len(log) < MaxLog \/ Appending(log)
    /\ GamestateLogPath(overlay_path) = WatcherLogPath
    /\ gamestate' = Stored(json_loads(raw).value)
    /\ log' = LogBegun(log, json_loads(raw).value)
    /\ response' = [route |-> "POST /gamestate", request |-> raw, status |-> << >>,
                    body |-> NoBody]
    /\ UNCHANGED << context, overlay, lock, pc, line, say, announced_ids,
                    new_events, branch, instruction, result, placed,
                    failedKeys, seedLen, polled, scanned >>
    /\ UNCHANGED << stale, brain, writing, overlay_path, hudlog >>

\* lines 141-147: the rest of the line, then send_response(204)
append_end ==
    /\ Running
    /\ Appending(log)
    /\ log' = LogCompleted(log)
    /\ response' = [response EXCEPT !.status = << 204 >>]
    /\ UNCHANGED << gamestate, context, overlay, lock, pc, line, say,
                    announced_ids, new_events, branch, instruction, result,
                    placed, failedKeys, seedLen, polled, scanned >>
    /\ UNCHANGED << stale, brain, writing, overlay_path, hudlog >>

(***************************************************************************)
(* src/cli.py _gamestate_loop, lines 280-330: the watcher thread.          *)
(***************************************************************************)
\* lines 282-289: the seeding pass over the log as it is when the thread starts
watcher_seed ==
    /\ Running
    /\ pc["watcher"] = "seed"
    /\ announced_ids' = Seed(read_gamestate_log(log), {})
    /\ seedLen' = Len(log)
    /\ pc' = [pc EXCEPT !["watcher"] = "poll"]
    /\ UNCHANGED << log, gamestate, overlay, lock, line, say, new_events,
                    branch, instruction, result, placed, failedKeys, polled,
                    scanned >>
    /\ UNCHANGED << context, response, stale, brain, writing, overlay_path, hudlog >>

\* where the watcher continues after the handler of line 328 (classification
\* raised) and after the handler of line 326 (announce raised): time.sleep,
\* then the next cycle
AfterWatcherError == "poll"

\* a handler that forgets the keys of the failed batch, so that it is retried
ForgetFailed(ann, batch) == ann \ KeysOf(batch)

\* the announced set after a cycle that failed: the handlers of lines 326-329
\* leave announced_ids alone
KeepAnnounced(ann, batch) == ann

\* one iteration of the loop up to the call of _speak_with_overlay: read the
\* log, collect and mark the new records, classify, ask for the reply
poll_cycle ==
    /\ Running
    /\ pc["watcher"] = "poll"
    /\ LET s == Scan(read_gamestate_log(log), announced_ids, << >>)
           c == Classify(s.new_events)
       IN  /\ new_events' = s.new_events
           /\ polled' = TRUE
           /\ scanned' = Len(log)
           /\ placed' = [k \in Keys |-> placed[k] + CountKey(s.new_events, k)]
           /\ \/ /\ s.new_events = << >>
                 /\ announced_ids' = s.announced
                 /\ branch' = "none"
                 /\ instruction' = ""
                 /\ UNCHANGED << pc, line, failedKeys >>
              \/ /\ s.new_events # << >>
                 /\ c.raised
                 /\ announced_ids' = KeepAnnounced(s.announced, s.new_events)
                 /\ branch' = "raised"
                 /\ instruction' = ""
                 /\ failedKeys' = failedKeys \cup KeysOf(s.new_events)
                 /\ pc' = [pc EXCEPT !["watcher"] = AfterWatcherError]
                 /\ UNCHANGED line
              \/ /\ s.new_events # << >>
                 /\ ~c.raised
                 /\ announced_ids' = s.announced
                 /\ branch' = c.branch
                 /\ instruction' = c.instruction
                 /\ \E backendOk \in BOOLEAN :
                        line' = [line EXCEPT !["watcher"] =
                                    leviathan_reply(c.instruction, backendOk)]
                 /\ pc' = [pc EXCEPT !["watcher"] = "acquire"]
                 /\ UNCHANGED failedKeys
    /\ UNCHANGED << log, gamestate, overlay, lock, say, result, seedLen >>
    /\ UNCHANGED << context, response, stale, brain, writing, overlay_path, hudlog >>

\* line 325: the watcher's own _clear_overlay after its announce returned
watcher_clear_overlay ==
    /\ Running
    /\ pc["watcher"] = "xclear"
    /\ overlay' = clear_state
    /\ pc' = [pc EXCEPT !["watcher"] = "poll"]
    /\ UNCHANGED << log, gamestate, lock, line, say, announced_ids, new_events,
                    branch, instruction, result, placed, failedKeys, seedLen,
                    polled, scanned >>
    /\ UNCHANGED << context, response, stale, brain, writing, overlay_path, hudlog >>

(***************************************************************************)
(* src/cli.py _speak_with_overlay, lines 125-130, called by thread t.      *)
(***************************************************************************)
\* an acquire that does not wait
CanAcquireAlways(l) == TRUE

\* SPEECH_LOCK.acquire as `with` calls it: blocks until the lock is free
CanAcquire(l) == l = NoHolder

\* a lock taken by hand and released on the normal path only
LockLeakedOnRaise(l) == l

\* the lock after the with-block is left by an exception
LockAfterRaise(l) == NoHolder

\* line 126: enter the with-block
speech_lock_acquire(t) ==
    /\ Running
    /\ pc[t] = "acquire"
    /\ CanAcquire(lock)
    /\ lock' = t
    /\ result' = [result EXCEPT ![t] = "none"]
    /\ pc' = [pc EXCEPT ![t] = "render"]
    /\ UNCHANGED << log, gamestate, overlay, line, say, announced_ids,
                    new_events, branch, instruction, placed, failedKeys,
                    seedLen, polled, scanned >>
    /\ UNCHANGED << context, response, stale, brain, writing, overlay_path, hudlog >>

\* line 127: _maybe_render_overlay(line, args, mode="speak")
maybe_render_overlay(t) ==
    /\ Running
    /\ pc[t] = "render"
    /\ overlay' = write_state("speak", line[t], OverlayFontSize)
    /\ pc' = [pc EXCEPT ![t] = "play"]
    /\ UNCHANGED << log, gamestate, lock, line, say, announced_ids, new_events,
                    branch, instruction, result, placed, failedKeys, seedLen,
                    polled, scanned >>
    /\ UNCHANGED << context, response, stale, brain, writing, overlay_path, hudlog >>

\* line 129, _speak_line: synthesis is done and the audio starts playing
speak_line_start(t) ==
    /\ Running
    /\ pc[t] = "play"
    /\ pc' = [pc EXCEPT ![t] = "speaking"]
    /\ UNCHANGED << log, gamestate, overlay, lock, line, say, announced_ids,
                    new_events, branch, instruction, result, placed,
                    failedKeys, seedLen, polled, scanned >>
    /\ UNCHANGED << context, response, stale, brain, writing, overlay_path, hudlog >>

\* line 129, _speak_line: playback ran to its end
speak_line_done(t) ==
    /\ Running
    /\ pc[t] = "speaking"
    /\ pc' = [pc EXCEPT ![t] = "delay"]
    /\ UNCHANGED << log, gamestate, overlay, lock, line, say, announced_ids,
                    new_events, branch, instruction, result, placed,
                    failedKeys, seedLen, polled, scanned >>
    /\ UNCHANGED << context, response, stale, brain, writing, overlay_path, hudlog >>

\* lines 120-122 and 126: speak or stream_speech raises, before or during
\* playback; _speak_line re-raises, the with-block releases the lock and the
\* exception reaches the caller.  The watcher catches it (line 326); nothing
\* catches it in main or run_listen_mode, so the process dies.
speak_line_raise(t) ==
    /\ Running
    /\ pc[t] \in {"play", "speaking"}
    /\ result' = [result EXCEPT ![t] = "raised"]
    /\ IF t = "watcher"
       THEN /\ lock' = LockAfterRaise(lock)
            /\ pc' = [pc EXCEPT ![t] = AfterWatcherError]
            /\ announced_ids' = KeepAnnounced(announced_ids, new_events)
            /\ failedKeys' = failedKeys \cup KeysOf(new_events)
            /\ UNCHANGED << line, new_events, branch, instruction, placed,
                            seedLen, polled, scanned, writing >>
       ELSE Exit("crashed")
    /\ UNCHANGED << log, gamestate, overlay, say >>
    /\ UNCHANGED << context, response, stale, brain, overlay_path, hudlog >>

\* line 130, _clear_overlay: time.sleep(delay), then clear_state
clear_overlay(t) ==
    /\ Running
    /\ pc[t] = "delay"
    /\ overlay' = clear_state
    /\ pc' = [pc EXCEPT ![t] = "release"]
    /\ UNCHANGED << log, gamestate, lock, line, say, announced_ids, new_events,
                    branch, instruction, result, placed, failedKeys, seedLen,
                    polled, scanned >>
    /\ UNCHANGED << context, response, stale, brain, writing, overlay_path, hudlog >>

\* the with-block ends: the lock is released and the call returns.  The
\* watcher goes on to line 325, the push-to-talk loop to its next recording,
\* and after --say main returns, which ends the process.
speech_lock_release(t) ==
    /\ Running
    /\ pc[t] = "release"
    /\ result' = [result EXCEPT ![t] = "returned"]
    /\ IF t = "main" /\ say
       THEN Exit("done")
       ELSE /\ lock' = NoHolder
            /\ pc' = [pc EXCEPT ![t] = IF t = "watcher" THEN "xclear" ELSE "record"]
            /\ UNCHANGED << line, announced_ids, new_events, branch,
                            instruction, placed, failedKeys, seedLen, polled,
                            scanned, writing >>
    /\ UNCHANGED << log, gamestate, overlay, say >>
    /\ UNCHANGED << context, response, stale, brain, overlay_path, hudlog >>

(***************************************************************************)
(* src/cli.py run_listen_mode, lines 144-175: the push-to-talk loop.       *)
(***************************************************************************)
\* lines 146-149: a recording ends; with audio, the thinking indicator is
\* written (_render_thinking, outside the lock)
record_push_to_talk ==
    /\ Running
    /\ pc["main"] = "record"
    /\ \E audio \in BOOLEAN :
           IF audio
           THEN /\ overlay' = write_state("think", "...", OverlayFontSize)
                /\ pc' = [pc EXCEPT !["main"] = "transcribe"]
           ELSE UNCHANGED << overlay, pc >>
    /\ UNCHANGED << log, gamestate, lock, line, say, announced_ids, new_events,
                    branch, instruction, result, placed, failedKeys, seedLen,
                    polled, scanned >>
    /\ UNCHANGED << context, response, stale, brain, writing, overlay_path, hudlog >>

\* lines 150-172: transcribe_auto raises, or returns a transcript that is
\* empty after strip, or one that leviathan_reply answers
transcribe_auto ==
    /\ Running
    /\ pc["main"] = "transcribe"
    /\ \/ /\ pc' = [pc EXCEPT !["main"] = "failclear"]
          /\ UNCHANGED line
       \/ \E transcript \in Transcripts, backendOk \in BOOLEAN :
            /\ line' = [line EXCEPT !["main"] = leviathan_reply(transcript, backendOk)]
            /\ pc' = [pc EXCEPT !["main"] = "acquire"]
    /\ UNCHANGED << log, gamestate, overlay, lock, say, announced_ids,
                    new_events, branch, instruction, result, placed,
                    failedKeys, seedLen, polled, scanned >>
    /\ UNCHANGED << context, response, stale, brain, writing, overlay_path, hudlog >>

\* a `continue` that leaves the overlay document as it is
ListenKeep(doc) == doc

\* lines 160 and 166: _clear_overlay(args), that is time.sleep, clear_state
ListenCleared(doc) == clear_state

\* lines 160 and 166: _clear_overlay outside the lock, then `continue`
listen_clear_overlay ==
    /\ Running
    /\ pc["main"] = "failclear"
    /\ overlay' = ListenCleared(overlay)
    /\ pc' = [pc EXCEPT !["main"] = "record"]
    /\ UNCHANGED << log, gamestate, lock, line, say, announced_ids, new_events,
                    branch, instruction, result, placed, failedKeys, seedLen,
                    polled, scanned >>
    /\ UNCHANGED << context, response, stale, brain, writing, overlay_path, hudlog >>

\* where the main thread can stand inside the try block of lines 144-173:
\* recording, transcribing, clearing after a failure, waiting for the lock,
\* or inside the with-block of its announce
ListenPositions == {"record", "transcribe", "failclear", "acquire"} \cup Critical

\* a handler that covers the announce alone
InterruptHandledInAnnounce(at) == at \in Critical

\* lines 144 and 174: the try block spans the whole loop body, and no handler
\* inside it catches KeyboardInterrupt (they are all `except Exception`)
InterruptHandled(at) == at \in ListenPositions

\* Ctrl+C: KeyboardInterrupt is raised in the main thread wherever it stands.
\* Leaving the with-block releases the lock if the thread holds it; the
\* handler of line 174 logs and run_listen_mode is about to return.
keyboard_interrupt ==
    /\ Running
    /\ ~say
    /\ pc["main"] \in ListenPositions
    /\ lock' = IF lock = "main" THEN LockAfterRaise(lock) ELSE lock
    /\ result' = [result EXCEPT !["main"] =
                     IF InterruptHandled(pc["main"]) THEN "interrupted"
                     ELSE "unhandled"]
    /\ pc' = [pc EXCEPT !["main"] = "exiting"]
    /\ UNCHANGED << log, gamestate, overlay, line, say, announced_ids,
                    new_events, branch, instruction, placed, failedKeys,
                    seedLen, polled, scanned >>
    /\ UNCHANGED << context, response, stale, brain, writing, overlay_path, hudlog >>

\* lines 175 and 110: run_listen_mode returns and main with it, or the
\* interrupt leaves main as an unhandled exception; the daemon threads end
\* with the process
listen_exit ==
    /\ Running
    /\ pc["main"] = "exiting"
    /\ Exit(IF result["main"] = "interrupted" THEN "done" ELSE "crashed")
    /\ UNCHANGED << log, gamestate, overlay, say, result >>
    /\ UNCHANGED << context, response, stale, brain, overlay_path, hudlog >>

(***************************************************************************)
(* Specifications.                                                         *)
(*  Spec       the server and the watcher over every payload shape, the    *)
(*             push-to-talk loop waiting for its operator;                 *)
(*  SpecSpeech every thread, over the payloads of plain eliminations.      *)
(***************************************************************************)
Announce(t) ==
    \/ speech_lock_acquire(t)
    \/ maybe_render_overlay(t)
    \/ speak_line_start(t)
    \/ speak_line_done(t)
    \/ speak_line_raise(t)
    \/ clear_overlay(t)
    \/ speech_lock_release(t)

Watcher ==
    \/ watcher_seed
    \/ poll_cycle
    \/ watcher_clear_overlay
    \/ Announce("watcher")

Next ==
    \/ Launch(FALSE)
    \/ Terminate
    \/ \E data \in Payloads : receive_gamestate(data)
    \/ Watcher

Spec == Init /\ [][Next]_vars

NextSpeech ==
    \/ \E s \in BOOLEAN : Launch(s)
    \/ Terminate
    \/ \E data \in SpeechPayloads : receive_gamestate(data)
    \/ Watcher
    \/ Announce("main")
    \/ record_push_to_talk
    \/ transcribe_auto
    \/ listen_clear_overlay

SpecSpeech == Init /\ [][NextSpeech]_vars

(***************************************************************************)
(*  SpecFair   the push-to-talk loop and the watcher over one kind of      *)
(*             event, with the scheduling the threads get: a thread that   *)
(*             can take a step takes it, and transcription, playback and   *)
(*             the sleeps all return.  Nothing makes the operator record,  *)
(*             post, kill or relaunch.                                     *)
(***************************************************************************)
NextListen ==
    \/ Launch(FALSE)
    \/ Terminate
    \/ receive_gamestate(P_Red)
    \/ Watcher
    \/ Announce("main")
    \/ record_push_to_talk
    \/ transcribe_auto
    \/ listen_clear_overlay

Fairness ==
    /\ WF_vars(transcribe_auto)
    /\ WF_vars(listen_clear_overlay)
    /\ WF_vars(Announce("main"))
    /\ WF_vars(Watcher)

SpecFair == Init /\ [][NextListen]_vars /\ Fairness

(***************************************************************************)
(*  SpecLive   SpecFair, and a thread blocked on SPEECH_LOCK gets it: a     *)
(*             release wakes the waiter, and the thread that released goes *)
(*             through a sleep or a recording before it asks again.        *)
(***************************************************************************)
LockFairness ==
    /\ Fairness
    /\ \A t \in Threads : SF_vars(speech_lock_acquire(t))

SpecLive == Init /\ [][NextListen]_vars /\ LockFairness

(***************************************************************************)
(*  SpecServer the overlay server on its own (server.py main) over files   *)
(*             left in any condition, and every kind of request body.      *)
(***************************************************************************)
\* the object of the spec's round-trip example, and one that brings its ts
P_TeamA == Record(NONE, "Team A eliminated", WAbsent)

P_Stamped == [Record(NONE, "Team B eliminated", WAbsent) EXCEPT !.ts = "17"]

\* the same object spelled over several lines
Pretty(text) == [text EXCEPT !.json = "pretty"]

\* bodies that are not a JSON object: not JSON, a JSON array, no body at all
\* (Content-Length absent or 0, lines 96-97 and 131-132)
MalformedBodies == {[json |-> "garbage"], [json |-> "array"], [json |-> "empty"]}

GamestateBodies == {P_TeamA, P_Stamped, Pretty(P_Red)} \cup MalformedBodies

ContextBodies ==
    {Snapshot("https://a", "picked", NONE), Snapshot("https://b", NONE, NONE),
     Pretty(Snapshot(NONE, NONE, NONE))} \cup MalformedBodies

\* a file cut short by a crash in mid-write, and one holding another JSON value
Corrupt(file) == [file EXCEPT !.json = "garbage"]

NotAnObject(file) == [file EXCEPT !.json = "array"]

ServerLogs == {<< >>, << GarbageLine >>, << P_Red, ArrayLine >>}

InitServer ==
    /\ log \in ServerLogs
    /\ gamestate \in {NoGamestate, Corrupt(NoGamestate), NotAnObject(NoGamestate)}
    /\ context \in {NoContext, Corrupt(NoContext), NotAnObject(NoContext)}
    /\ overlay \in {NoFile, Corrupt(NoFile), NotAnObject(NoFile), clear_state,
                    write_state("speak", SayText, OverlayFontSize)}
    /\ response = NoResponse
    /\ lock = NoHolder
    /\ pc = [t \in Threads |-> IF t = "main" THEN "boot" ELSE "off"]
    /\ line = [t \in Threads |-> ""]
    /\ say = FALSE
    /\ announced_ids = {}
    /\ new_events = << >>
    /\ branch = "none"
    /\ instruction = ""
    /\ result = [t \in Threads |-> "none"]
    /\ placed = ZeroPlaced
    /\ failedKeys = {}
    /\ seedLen = 0
    /\ polled = FALSE
    /\ scanned = 0
    /\ stale = FALSE
    /\ brain = NoCall
    /\ writing = [t \in Threads |-> NotWriting]
    /\ overlay_path = DefaultOverlayPath
    /\ hudlog = << >>

NextServer ==
    \/ server_main
    \/ Terminate
    \/ serve_state
    \/ serve_context
    \/ serve_gamestate
    \/ \E raw \in ContextBodies : receive_context(raw)
    \/ \E raw \in GamestateBodies : receive_gamestate(raw)

SpecServer == InitServer /\ [][NextServer]_vars

(***************************************************************************)
(*  SpecWrites every thread over one kind of event, with each write of     *)
(*             state.json as the two file operations write_text makes:     *)
(*             the open that empties the file, and the write of the text.  *)
(***************************************************************************)
\* where a thread stands when it calls write_state or clear_state: lines 127,
\* 130, 149, 160/166 and 325
WritePositions == {"render", "delay", "think", "failclear", "xclear"}

\* the document the call at position `at` writes for thread t
WriteDoc(t, at) ==
    IF at = "render" THEN write_state("speak", line[t], OverlayFontSize)
    ELSE IF at = "think" THEN write_state("think", "...", OverlayFontSize)
    ELSE clear_state

\* where thread t goes on when the call at position `at` has returned
AfterWrite(t, at) ==
    IF at = "render" THEN "play"
    ELSE IF at = "delay" THEN "release"
    ELSE IF at = "think" THEN "transcribe"
    ELSE IF at = "failclear" THEN "record"
    ELSE "poll"

\* lines 146-148: a recording ends with audio
record_audio ==
    /\ Running
    /\ pc["main"] = "record"
    /\ pc' = [pc EXCEPT !["main"] = "think"]
    /\ UNCHANGED << log, gamestate, overlay, lock, line, say, announced_ids,
                    new_events, branch, instruction, result, placed,
                    failedKeys, seedLen, polled, scanned >>
    /\ UNCHANGED << context, response, stale, brain, writing, overlay_path, hudlog >>

\* state.py line 28, first half: open(path, "w") truncates the file
overlay_open(t) ==
    /\ Running
    /\ pc[t] \in WritePositions
    /\ writing[t] = NotWriting
    /\ writing' = [writing EXCEPT ![t] = WriteDoc(t, pc[t])]
    /\ overlay' = Truncated
    /\ UNCHANGED << log, gamestate, lock, pc, line, say, announced_ids,
                    new_events, branch, instruction, result, placed,
                    failedKeys, seedLen, polled, scanned >>
    /\ UNCHANGED << context, response, stale, brain, overlay_path, hudlog >>

\* state.py line 28, second half: the text is written and the file closed
overlay_write(t) ==
    /\ Running
    /\ writing[t] # NotWriting
    /\ overlay' = Overwrite(overlay, writing[t])
    /\ writing' = [writing EXCEPT ![t] = NotWriting]
    /\ pc' = [pc EXCEPT ![t] = AfterWrite(t, pc[t])]
    /\ UNCHANGED << log, gamestate, lock, line, say, announced_ids,
                    new_events, branch, instruction, result, placed,
                    failedKeys, seedLen, polled, scanned >>
    /\ UNCHANGED << context, response, stale, brain, overlay_path, hudlog >>

NextWrites ==
    \/ \E s \in BOOLEAN : Launch(s)
    \/ receive_gamestate(P_Red)
    \/ watcher_seed
    \/ poll_cycle
    \/ record_audio
    \/ transcribe_auto
    \/ \E t \in Threads :
          \/ speech_lock_acquire(t)
          \/ speak_line_start(t)
          \/ speak_line_done(t)
          \/ speech_lock_release(t)
          \/ overlay_open(t)
          \/ overlay_write(t)

SpecWrites == Init /\ [][NextWrites]_vars

(***************************************************************************)
(*  SpecDocs   one run of the process with every writer of the documents:  *)
(*             the watcher's announcements write the overlay state, the    *)
(*             server takes posts to /context and to /gamestate.           *)
(***************************************************************************)
NextDocs ==
    \/ Launch(FALSE)
    \/ \E raw \in ContextBodies : receive_context(raw)
    \/ \E raw \in {P_Red, P_Blue} \cup MalformedBodies : receive_gamestate(raw)
    \/ Watcher

SpecDocs == Init /\ [][NextDocs]_vars

(***************************************************************************)
(*  SpecInterrupt the push-to-talk loop and the watcher over one kind of   *)
(*             event, with an operator who may press Ctrl+C at any point   *)
(*             of the loop.                                                *)
(***************************************************************************)
NextInterrupt ==
    \/ Launch(FALSE)
    \/ receive_gamestate(P_Red)
    \/ Watcher
    \/ Announce("main")
    \/ record_push_to_talk
    \/ transcribe_auto
    \/ listen_clear_overlay
    \/ keyboard_interrupt
    \/ listen_exit

SpecInterrupt == Init /\ [][NextInterrupt]_vars

(***************************************************************************)
(*  SpecLossless one run of the process that goes on for ever: clients     *)
(*             post records, some of them with the same key, and the       *)
(*             watcher thread is scheduled whenever it can take a step, so *)
(*             that its sleeps, its playback and its failures all end.     *)
(***************************************************************************)
LosslessPayloads == {P_Red, P_IdRed, P_IdBlue}

NextLossless ==
    \/ Launch(FALSE)
    \/ \E data \in LosslessPayloads : receive_gamestate(data)
    \/ Watcher

SpecLossless == Init /\ [][NextLossless]_vars /\ WF_vars(Watcher)

(***************************************************************************)
(*  SpecEvents one run of the process: the server and the watcher over     *)
(*             records that share keys and over winner records of every    *)
(*             shape.                                                      *)
(***************************************************************************)
NextEvents ==
    \/ Launch(FALSE)
    \/ \E data \in EventPayloads : receive_gamestate(data)
    \/ Watcher

SpecEvents == Init /\ [][NextEvents]_vars

(***************************************************************************)
(*  SpecAppend the server and the watcher, with each append to the log as  *)
(*             the two writes a long line takes.                           *)
(***************************************************************************)
NextAppend ==
    \/ Launch(FALSE)
    \/ \E data \in LosslessPayloads : append_begin(data)
    \/ append_end
    \/ Watcher

SpecAppend == Init /\ [][NextAppend]_vars

(***************************************************************************)
(*  SpecIngest the server and the watcher, over every kind of request body *)
(*             and a log that cannot always be written.                    *)
(***************************************************************************)
NextIngest ==
    \/ Launch(FALSE)
    \/ \E raw \in GamestateBodies : receive_gamestate(raw)
    \/ \E raw \in GamestateBodies : receive_gamestate_oserror(raw)
    \/ Watcher

SpecIngest == Init /\ [][NextIngest]_vars

(***************************************************************************)
(*  SpecPaths  the server and the watcher of a process that is given any   *)
(*             of the overlay state paths.                                 *)
(***************************************************************************)
NextPaths ==
    \/ \E path \in OverlayPaths : parse_args(path)
    \/ Launch(FALSE)
    \/ \E data \in SpeechPayloads : receive_gamestate(data)
    \/ Watcher

SpecPaths == Init /\ [][NextPaths]_vars

(***************************************************************************)
(*  SpecBrain  the reply generator on its own: every provider, request,    *)
(*             context and outcome of the two backends.                    *)
(***************************************************************************)
InitBrain ==
    /\ brain \in {[NoCall EXCEPT !.provider = p, !.request = r, !.context = c,
                                 !.outcome = o] :
                      p \in Providers, r \in Requests, c \in Contexts,
                      o \in [Backends -> Outcomes]}
    /\ log = << >>
    /\ gamestate = NoGamestate
    /\ context = NoContext
    /\ overlay = NoFile
    /\ response = NoResponse
    /\ lock = NoHolder
    /\ pc = [t \in Threads |-> IF t = "main" THEN "boot" ELSE "off"]
    /\ line = [t \in Threads |-> ""]
    /\ say = FALSE
    /\ announced_ids = {}
    /\ new_events = << >>
    /\ branch = "none"
    /\ instruction = ""
    /\ result = [t \in Threads |-> "none"]
    /\ placed = ZeroPlaced
    /\ failedKeys = {}
    /\ seedLen = 0
    /\ polled = FALSE
    /\ scanned = 0
    /\ stale = FALSE
    /\ writing = [t \in Threads |-> NotWriting]
    /\ overlay_path = DefaultOverlayPath
    /\ hudlog = << >>

\* lines 181-185: one call of leviathan_reply(request, context); the persona
\* line it may fall back to is built from one draw of opener and tone
brain_reply ==
    /\ ~brain.called
    /\ \E opener \in Openers, tone \in Tones :
           LET fallback == persona(opener, RequestText(brain.request),
                                   brain.context, tone)
               r == reply(brain.provider, brain.request, brain.outcome, fallback)
           IN  brain' = [brain EXCEPT !.called = TRUE, !.tried = r.tried,
                                      !.raised = r.raised, !.fallback = fallback,
                                      !.value = r.value]
    /\ UNCHANGED << log, gamestate, context, response, overlay, lock, pc, line,
                    say, announced_ids, new_events, branch, instruction,
                    result, placed, failedKeys, seedLen, polled, scanned, stale,
                    writing, overlay_path, hudlog >>

NextBrain == brain_reply

SpecBrain == InitBrain /\ [][NextBrain]_vars

(***************************************************************************)
(* Properties.                                                             *)
(***************************************************************************)
\* the document while `text` is on display as speech
SpeakDoc(text) == write_state("speak", text, OverlayFontSize)

\* positions of a watcher thread that is alive
WatcherAlive == {"seed", "poll", "acquire", "xclear"} \cup Critical

\* the records the data model allows: a truthy winner is a JSON object
WellTyped(events) ==
    \A i \in DOMAIN events :
        WinnerTruthy(events[i].winner) => events[i].winner.type = "dict"

\* C1: within one lifetime of the watcher every identity key is put in a
\* new_events batch at most once, over all poll cycles and all logs, also
\* when one cycle reads two records with the same key.
C1_AnnouncedAtMostOnce == \A k \in Keys : placed[k] <= 1

\* two records with the key Red were read by one poll cycle, which batched one
C1_Witness ==
    /\ Running
    /\ seedLen = 0
    /\ scanned >= 2
    /\ log[1] = P_Red
    /\ log[2] = P_Red
    /\ new_events = << P_Red >>
    /\ placed["Red"] = 1

\* C2: once the seeding pass is over, the key of every record it read is in
\* announced_ids, and as long as the log is the one it read no key has been
\* batched and the watcher has announced nothing.
C2_SeedingIsSilent ==
    (Running /\ pc["watcher"] \notin {"off", "seed"}) =>
        /\ \A i \in 1..seedLen :
               (IsObject(log[i]) /\ Truthy(EvtId(log[i])))
                   => EvtId(log[i]) \in announced_ids
        /\ Len(log) = seedLen =>
               /\ placed = ZeroPlaced
               /\ new_events = << >>
               /\ pc["watcher"] = "poll"
               /\ result["watcher"] = "none"

\* a restart over a log of three keyed records, then a poll cycle over it
C2_Witness ==
    /\ Running
    /\ pc["watcher"] = "poll"
    /\ seedLen = 3
    /\ Len(log) = 3
    /\ \A i \in 1..3 : Truthy(EvtId(log[i]))
    /\ polled
    /\ scanned = 3
    /\ placed = ZeroPlaced

\* C3: at most one thread is inside the with-block of _speak_with_overlay
\* (overlay write, playback, delay, clear), so at most one audio plays,
\* whichever paths (--say, push-to-talk, watcher) the calls come from.
C3_OneAnnounceAtATime ==
    /\ Cardinality({t \in Threads : pc[t] \in Critical}) <= 1
    /\ Cardinality({t \in Threads : pc[t] = "speaking"}) <= 1

\* the watcher waits for the lock while the main thread's audio plays
C3_Witness ==
    /\ pc["main"] = "speaking"
    /\ pc["watcher"] = "acquire"
    /\ lock = "main"

\* C4: while a line's audio plays the overlay document is mode speak with
\* that line's text; no write made outside the lock changes it meanwhile.
C4_OverlayFollowsAudio ==
    \A t \in Threads :
        (Running /\ pc[t] = "speaking") => overlay = SpeakDoc(line[t])

\* C5: the speak write of one call never replaces the speak text that another
\* call left on display: a clear lies between the texts of two calls.
C5_ClearBetweenCalls ==
    [][\A t, u \in Threads :
          (t # u /\ pc[t] = "render" /\ pc'[t] = "play")
              => ~(overlay.mode = "speak" /\ overlay.text = line[u])]_vars

\* C6: after a call of _speak_with_overlay ended by a playback exception the
\* overlay no longer shows that call's line in mode speak.
C6_ClearedAfterRaise ==
    \A t \in Threads : result[t] = "raised" => overlay # SpeakDoc(line[t])

\* C7: the speech lock is held exactly while its holder is inside the
\* with-block: whenever a call has returned or raised the lock is free.
C7_LockReleasedOnEveryExit ==
    Running =>
        /\ \A t \in Threads : (lock = t) <=> (pc[t] \in Critical)
        /\ (lock = NoHolder) <=> (\A t \in Threads : pc[t] \notin Critical)

\* the watcher's call raised, and the main thread took the lock afterwards
C7_Witness ==
    /\ Running
    /\ result["watcher"] = "raised"
    /\ pc["watcher"] = "poll"
    /\ lock = "main"
    /\ pc["main"] = "speaking"

\* C8: a failed cycle (classification or playback raised) leaves the watcher
\* alive and its keys announced; announced_ids never shrinks while the process
\* runs, and a key of a failed batch is never batched a second time.
C8_FailureKeepsWatcherAndKeys ==
    /\ [](Running => pc["watcher"] \in WatcherAlive)
    /\ [](\A k \in failedKeys : k \in announced_ids /\ placed[k] = 1)
    /\ [][(Running /\ Running') => announced_ids \subseteq announced_ids']_vars

\* a batch failed in classification; its key came again in the log and a
\* later cycle, past that line, announces another key
C8_Witness ==
    /\ Running
    /\ log = << P_Teal, P_Teal, P_Red >>
    /\ failedKeys = {"Teal"}
    /\ scanned = 3
    /\ new_events = << P_Red >>
    /\ pc["watcher"] = "speaking"

\* C9: in the push-to-talk loop no failure of transcription or of speech
\* playback ends the process.
C9_ListenLoopSurvives == ~say => pc["main"] # "crashed"

\* C10: a batch of well-typed records that holds a record with a non-empty
\* winner gets the Victory instruction, wherever that record stands in the
\* batch and whatever the size of the batch.
C10_VictoryPrecedence ==
    (new_events # << >> /\ WellTyped(new_events)
        /\ \E i \in DOMAIN new_events : WinnerTruthy(new_events[i].winner))
    => /\ branch = "victory"
       /\ \E i \in DOMAIN new_events :
              /\ WinnerTruthy(new_events[i].winner)
              /\ instruction \in
                    { VictoryInstruction(n, r) :
                        n \in {new_events[i].winner.name, new_events[i].event,
                               "Unknown victor"},
                        r \in {new_events[i].winner.reason, ""} }

\* a batch of three whose winner record comes last, after two eliminations
C10_Witness ==
    /\ Len(new_events) = 3
    /\ ~WinnerTruthy(new_events[1].winner)
    /\ ~WinnerTruthy(new_events[2].winner)
    /\ WinnerTruthy(new_events[3].winner)
    /\ branch = "victory"

RECURSIVE JoinUpTo(_, _)
\* the first n names, each followed by "; " except the last
JoinUpTo(names, n) ==
    IF n = 0 THEN ""
    ELSE IF n = 1 THEN names[1]
    ELSE JoinUpTo(names, n - 1) \o "; " \o names[n]

RECURSIVE InFileOrder(_, _)
\* `events` can be read off `lines` from first to last, skipping lines
InFileOrder(events, lines) ==
    IF events = << >> THEN TRUE
    ELSE IF lines = << >> THEN FALSE
    ELSE IF Head(events) = Head(lines) THEN InFileOrder(Tail(events), Tail(lines))
    ELSE InFileOrder(events, Tail(lines))

\* C11: a batch of two or more records without a winner gets the Batch
\* instruction, which names the non-empty event fields of the batch joined
\* with "; ", verbatim and in the order of their lines in the log.
C11_BatchNamesInFileOrder ==
    (Len(new_events) >= 2 /\ \A i \in DOMAIN new_events : ~HasWinner(new_events[i]))
    => LET named == SelectSeq(new_events, HasEvent)
           names == [i \in DOMAIN named |-> named[i].event]
       IN  /\ branch = "batch"
           /\ InFileOrder(new_events, log)
           /\ instruction = BatchInstruction(JoinUpTo(names, Len(names)))

\* Red, a record without an event field, then Blue: one batch, "Red; Blue"
C11_Witness ==
    /\ new_events = << P_Red, P_IdOnly, P_Blue >>
    /\ instruction =
           "Announce clearly these eliminations together: Red; Blue. Include each team name verbatim."

(***************************************************************************)
(* The HTTP surface.  A step is a request when it changes `response`; a    *)
(* request that repeats the latest one with the same outcome is a          *)
(* stuttering step.                                                        *)
(***************************************************************************)
\* the object a request body spells
ObjectOf(raw) == json_loads(raw).value

\* the keys an object has, its spelling aside
KeysPresent(obj) == {k \in DOMAIN obj \ {"json"} : Present(k, obj[k])}

PostAccepted(r, route) ==
    r.route = route /\ r.status # << >> /\ Head(r.status) = 204

Is4xx(code) == code >= 400 /\ code <= 499

\* C12: a GET /gamestate that follows an accepted POST /gamestate returns
\* the posted object, key for key, and a ts key besides.
C12_RoundTripAddsTs ==
    [][(PostAccepted(response, "POST /gamestate") /\ response'.route = "GET /gamestate")
        => LET obj == ObjectOf(response.request)
           IN  /\ \A k \in KeysPresent(obj) : response'.body[k] = obj[k]
               /\ Present("ts", response'.body.ts)]_vars

\* C13: the log changes only by an accepted POST /gamestate, and every such
\* request, answered 204, appends the posted object as one line after the
\* lines that were there, which stay as they were.
C13_LogAppendOnly ==
    [][(log' # log \/ (response' # response /\ PostAccepted(response', "POST /gamestate")))
        => /\ PostAccepted(response', "POST /gamestate")
           /\ Len(log') = Len(log) + 1
           /\ SubSeq(log', 1, Len(log)) = log
           /\ log'[Len(log')].json = "object"
           /\ ObjectOf(log'[Len(log')]) = ObjectOf(response'.request)]_vars

\* an object spelled over several lines was posted onto a log of two lines
C13_Witness ==
    /\ response.route = "POST /gamestate"
    /\ response.request = Pretty(P_Red)
    /\ log = << P_Red, ArrayLine, P_Red >>

\* C14: a POST to /context or /gamestate whose body does not parse, or
\* parses to something else than an object, is answered with 4xx status
\* lines only, and the documents and the log are left as they were.
C14_MalformedBodyRejected ==
    [][(response' # response
            /\ response'.route \in {"POST /context", "POST /gamestate"}
            /\ response'.request.json \notin ObjectTexts)
        => /\ response'.status # << >>
           /\ \A i \in DOMAIN response'.status : Is4xx(response'.status[i])
           /\ UNCHANGED << log, gamestate, context, overlay >>]_vars

\* a JSON array was posted to /context, over a context document that stays
C14_Witness ==
    /\ response.route = "POST /context"
    /\ response.request.json = "array"
    /\ Head(response.status) = 400
    /\ context = Snapshot("https://a", "picked", NONE)

\* the file behind a GET route
Backing(route) ==
    IF route = "GET /state" THEN overlay
    ELSE IF route = "GET /context" THEN context
    ELSE gamestate

\* C15: every GET of a document is answered 200, and with the fixed default
\* when the file behind it is absent, does not parse, or is not an object.
C15_DefaultsServed ==
    [][(response' # response /\ response'.route \in {"GET /state", "GET /context", "GET /gamestate"})
        => /\ response'.status = << 200 >>
           /\ Backing(response'.route).json \in {"nofile", "garbage", "array"}
                => response'.body =
                      IF response'.route = "GET /state"
                      THEN [mode |-> "clear", text |-> "", font_size |-> 30, ts |-> "0"]
                      ELSE IF response'.route = "GET /context"
                      THEN [url |-> "", selection |-> "", ts |-> "0"]
                      ELSE [k \in {} |-> ""]]_vars

\* GET /state over a state file that was cut short
C15_Witness ==
    /\ response.route = "GET /state"
    /\ overlay.json = "garbage"
    /\ response.body.mode = "clear"
    /\ response.body.font_size = 30

\* C19: an accepted POST /context leaves the context file holding the posted
\* object and nothing else, and a GET /context that follows returns every
\* posted field, with the default for the fields the object lacks.
C19_ContextRoundTrip ==
    /\ [][(response' # response /\ PostAccepted(response', "POST /context"))
            => context' = [ObjectOf(response'.request) EXCEPT !.json = "object"]]_vars
    /\ [][(PostAccepted(response, "POST /context") /\ response'.route = "GET /context")
            => LET obj == ObjectOf(response.request)
               IN  \A k \in {"url", "selection", "ts"} :
                       response'.body[k] =
                           IF k \in KeysPresent(obj) THEN obj[k]
                           ELSE IF k = "ts" THEN "0" ELSE ""]_vars

\* a snapshot with url only was posted and read back: selection and ts are
\* the defaults
C19_Witness ==
    /\ response.route = "GET /context"
    /\ context = Snapshot("https://b", NONE, NONE)
    /\ response.body = [url |-> "https://b", selection |-> "", ts |-> "0"]

\* the positions of the lines that are JSON objects
ObjectLines(lines) == {i \in DOMAIN lines : lines[i].json = "object"}

\* the position of the j-th of them
NthObjectLine(lines, j) ==
    CHOOSE i \in ObjectLines(lines) :
        Cardinality({k \in ObjectLines(lines) : k <= i}) = j

\* C16: read_gamestate_log returns the lines of the log that are JSON
\* objects, all of them and in file order, whatever other lines the log holds
\* (none for an empty or missing log); the watcher that reads the log stays
\* alive and never batches a line that is not an object.
C16_ReadSkipsBadLines ==
    LET events == read_gamestate_log(log)
    IN  /\ Len(events) = Cardinality(ObjectLines(log))
        /\ \A j \in DOMAIN events : events[j] = log[NthObjectLine(log, j)]
        /\ \A i \in DOMAIN new_events : new_events[i].json = "object"
        /\ Running => pc["watcher"] \in WatcherAlive
        /\ (Running /\ polled /\ scanned = Len(log)) =>
               \A i \in ObjectLines(log) :
                   Truthy(EvtId(log[i])) => EvtId(log[i]) \in announced_ids

\* a log with a non-object line between two records: the seeding pass read the
\* first, a poll cycle the one after the bad line
C16_Witness ==
    /\ Running
    /\ log = << P_Red, ArrayLine, P_Blue >>
    /\ seedLen = 2
    /\ scanned = 3
    /\ new_events = << P_Blue >>
    /\ announced_ids = {"Red", "Blue"}

\* C17: at the moment an announcement completes (its call returns, the lock
\* is released) the overlay document is mode clear with text "".
C17_ClearWhenAnnounceCompletes ==
    [][\A t \in Threads :
          (pc[t] = "release" /\ pc'[t] # "release" /\ result'[t] = "returned")
              => (overlay'.mode = "clear" /\ overlay'.text = "")]_vars

\* no thread of this run has written the overlay since the launch, or the
\* main thread is back at the top of its loop with the watcher still seeding
Untouched ==
    /\ Running
    /\ pc["watcher"] = "seed"
    /\ pc["main"] = "record" \/ (say /\ pc["main"] = "acquire")

\* C18: the step that launches the CLI writes the clear document while no
\* thread is inside an announce, and only then are the watcher and the
\* interactive path started; whatever mode the previous run left behind, the
\* overlay is clear until a thread of the new run writes it.
C18_ClearedAtLaunch ==
    /\ [][(pc["main"] \in Stopped /\ pc'["main"] \in {"record", "acquire"})
            => /\ overlay'.mode = "clear" /\ overlay'.text = ""
               /\ pc["watcher"] = "off"
               /\ pc'["watcher"] = "seed"
               /\ lock' = NoHolder]_vars
    /\ [](Untouched => overlay.mode = "clear" /\ overlay.text = "")

\* the previous run was stopped with a bubble on display; the new run has
\* started and its watcher has not read the log yet
C18_Witness ==
    /\ stale
    /\ Running
    /\ pc["watcher"] = "seed"
    /\ overlay = clear_state

\* the thinking indicator is on display in a running process
ThinkShown == Running /\ overlay.mode = "think"

\* C20: the thinking indicator is written by the push-to-talk loop with the
\* lock neither held nor taken by it, its text is "...", and once on display
\* it is eventually replaced: by an announce's speak write or by a clear.
C20_ThinkSuperseded ==
    /\ [][(overlay'.mode = "think" /\ overlay' # overlay)
            => /\ pc["main"] = "record"
               /\ overlay'.text = "..."
               /\ lock # "main"
               /\ lock' = lock]_vars
    /\ (ThinkShown ~> ~ThinkShown)

\* the indicator was written while the watcher held the lock for its playback
C20_Witness ==
    /\ ThinkShown
    /\ pc["main"] = "transcribe"
    /\ lock = "watcher"
    /\ pc["watcher"] = "speaking"

\* the backend the provider selects, if any
SelectedBackend ==
    IF brain.provider \in {"ollama", "local"} THEN "ollama"
    ELSE IF brain.provider = "openai" THEN "openai"
    ELSE "none"

\* the persona lines _persona_only can build for the request of the call
PersonaLines ==
    {persona(o, RequestText(brain.request), brain.context, t) :
        o \in Openers, t \in Tones}

\* C21: a call of leviathan_reply returns a string whatever the provider and
\* whatever the backends do: when the selected backend raises the value is a
\* persona line for the request, and only the selected backend is tried (no
\* openai call under ollama or local, no ollama call under openai).
C21_ReplyNeverFails ==
    brain.called =>
        /\ ~brain.raised
        /\ brain.value # ""
        /\ (SelectedBackend # "none" /\ brain.outcome[SelectedBackend] = "raise"
               => brain.value \in PersonaLines)
        /\ (brain.provider \in {"ollama", "local"}
               => \A i \in DOMAIN brain.tried : brain.tried[i] # "openai")
        /\ (brain.provider = "openai"
               => \A i \in DOMAIN brain.tried : brain.tried[i] # "ollama")

\* the provider is local, the ollama backend raised while openai would have
\* answered, and the call returned a persona line having tried ollama alone
C21_Witness ==
    /\ brain.called
    /\ brain.provider = "local"
    /\ brain.outcome = [b \in Backends |-> IF b = "ollama" THEN "raise" ELSE "ok"]
    /\ brain.tried = << "ollama" >>
    /\ brain.value \in PersonaLines

\* the watcher is inside the announce of its latest batch
WatcherAnnouncing == pc["watcher"] \in {"acquire", "xclear"} \cup Critical

\* C22: the latest poll cycle took one branch, by priority: a non-empty batch
\* of well-typed records is Victory when some record has a non-empty winner,
\* else Single when it holds one record (the instruction names that record's
\* event), else Batch.  A cycle that finds nothing new takes no branch, asks
\* for no reply and starts no announce.
C22_OneBranchByPriority ==
    /\ [](IF new_events = << >>
          THEN branch = "none" /\ instruction = "" /\ ~WatcherAnnouncing
          ELSE WellTyped(new_events) =>
                  IF \E i \in DOMAIN new_events : HasWinner(new_events[i])
                  THEN branch = "victory"
                  ELSE IF Len(new_events) = 1
                  THEN /\ branch = "single"
                       /\ instruction = SingleInstruction(new_events[1].event)
                  ELSE /\ branch = "batch"
                       /\ instruction = BatchInstruction(Join(Names(new_events))))
    /\ [][polled' /\ new_events' = << >>
             => line' = line /\ pc'["watcher"] = "poll"]_vars

\* a cycle read one plain elimination and took the Single branch, and a later
\* cycle of the same watcher found nothing new
C22_Witness ==
    /\ Running
    /\ polled
    /\ new_events = << >>
    /\ placed["Red"] = 1
    /\ scanned = 1
    /\ seedLen = 0
    /\ line["watcher"] \in {leviathan_reply(SingleInstruction("Red"), ok) : ok \in BOOLEAN}

\* the first record of the latest batch that has a non-empty winner
FirstWinner == Head(SelectSeq(new_events, HasWinner))

\* C23 as stated: the Victory instruction names winner.name of the first
\* winner record, or else that record's event field, with winner.reason or
\* else the empty string.
C23_VictoryFromFirstWinner ==
    (branch = "victory" /\ WellTyped(new_events))
    => instruction =
           VictoryInstruction(PyOr(FirstWinner.winner.name, FirstWinner.event),
                              PyOr(FirstWinner.winner.reason, ""))

\* C23, amended: as above, and a first winner record that has neither a
\* winner name nor an event field is named "Unknown victor".
C23_VictoryFromFirstWinnerOrUnknown ==
    (branch = "victory" /\ WellTyped(new_events))
    => instruction =
           VictoryInstruction(
               IF Truthy(FirstWinner.winner.name) THEN FirstWinner.winner.name
               ELSE IF FirstWinner.event # NONE THEN FirstWinner.event
               ELSE "Unknown victor",
               IF Truthy(FirstWinner.winner.reason) THEN FirstWinner.winner.reason
               ELSE "")

\* a batch of two winner records: the first has an empty name and no reason,
\* so the instruction names its event with an empty reason
C23_Witness ==
    /\ branch = "victory"
    /\ Len(new_events) = 2
    /\ new_events[1] = P_Silver
    /\ new_events[2] = P_Gold
    /\ instruction = VictoryInstruction("Silver", "")

\* the identity key as the data model states it
IdentityKey(e) == IF e.event_id \notin {NONE, ""} THEN e.event_id ELSE e.event

\* a step of the watcher that ran one poll cycle over the log
PollStep == Running /\ pc["watcher"] = "poll" /\ log' = log /\ polled'

\* C24: records are told apart by event_id when it is present and truthy, and
\* by event otherwise.  Every record a poll cycle batches has such a key, new
\* to the announced set and carried by no other record of the batch (records
\* sharing an event_id give one announcement, whatever their event fields);
\* every record of the log whose key is not yet announced has a record with
\* its key in the batch (records with different event_id give two, also with
\* the same event field); no record without a key enters the set or a batch.
C24_IdentityKey ==
    /\ [][PollStep =>
            /\ \A i \in DOMAIN new_events' :
                  /\ IdentityKey(new_events'[i]) \notin {NONE, ""}
                  /\ IdentityKey(new_events'[i]) \notin announced_ids
                  /\ IdentityKey(new_events'[i]) \in announced_ids'
                  /\ \A j \in DOMAIN new_events' :
                        j # i => IdentityKey(new_events'[j]) # IdentityKey(new_events'[i])
            /\ \A i \in DOMAIN log :
                  (/\ IsObject(log[i])
                   /\ IdentityKey(log[i]) \notin {NONE, ""}
                   /\ IdentityKey(log[i]) \notin announced_ids)
                  => \E j \in DOMAIN new_events' :
                        IdentityKey(new_events'[j]) = IdentityKey(log[i])]_vars
    /\ [](announced_ids \subseteq
              {IdentityKey(log[i]) : i \in DOMAIN log} \ {NONE, ""})

\* three records posted to a watcher that seeded from an empty log: two share
\* the event_id e1, two share the event Red, and one has no key.  Two cycles
\* batched the e1 record that came first and the e2 record, and nothing else.
C24_Witness ==
    /\ Running
    /\ seedLen = 0
    /\ log = << P_IdRed, P_IdBlue, P_Id2Red >>
    /\ scanned = 3
    /\ placed["e1"] = 1
    /\ placed["e2"] = 1
    /\ announced_ids = {"e1", "e2"}
    /\ new_events = << P_Id2Red >>

\* a step taken by the watcher thread at its seeding pass or in a poll cycle:
\* the main thread and the server's files and responses stay as they are
WatcherScanStep ==
    /\ pc["watcher"] \in {"seed", "poll"}
    /\ pc'["main"] = pc["main"]
    /\ line'["main"] = line["main"]
    /\ result'["main"] = result["main"]
    /\ << log, gamestate, context, response >>' = << log, gamestate, context, response >>

\* C25: while the process runs no step removes a key from the announced set,
\* the steps of failed cycles included, and the set changes only in steps of
\* the watcher thread (its seeding pass and its poll cycles).
C25_AnnouncedOnlyGrows ==
    [][(Running /\ Running') =>
          /\ announced_ids \subseteq announced_ids'
          /\ (announced_ids' # announced_ids => WatcherScanStep)]_vars

\* the announce of Red failed in the watcher, Red stayed in the set, a later
\* cycle added Blue, and the main thread is inside its own announce
C25_Witness ==
    /\ Running
    /\ failedKeys = {"Red"}
    /\ announced_ids = {"Red", "Blue"}
    /\ lock = "main"
    /\ pc["watcher"] = "acquire"

\* no thread is between the open and the write of a write_state call
NoWriteInProgress == \A t \in Threads : writing[t] = NotWriting

\* C26: once the running program has written the Overlay State and no write
\* is under way, state.json holds one JSON object with mode, text, font_size
\* and ts, its mode is speak, think or clear, a clear document has the text ""
\* and a think document the text "...".
C26_OverlayDocumentWellFormed ==
    (Running /\ NoWriteInProgress)
    => /\ overlay.json = "object"
       /\ overlay.mode \in {"speak", "think", "clear"}
       /\ overlay.ts # NONE
       /\ (overlay.mode = "clear" => overlay.text = "")
       /\ (overlay.mode = "think" => overlay.text = "...")

\* the step is a request to `route` that the server answered
Answered(route) == response' # response /\ response'.route = route

\* C27: the documents are written independently.  A step that changes the
\* overlay state leaves the context document, the gamestate document and the
\* log as they are; a POST /context leaves the overlay state, the gamestate
\* document and the log as they are; a POST /gamestate leaves the overlay
\* state and the context document as they are.
C27_DocumentsIndependent ==
    /\ [][overlay' # overlay
             => context' = context /\ gamestate' = gamestate /\ log' = log]_vars
    /\ [][Answered("POST /context")
             => overlay' = overlay /\ gamestate' = gamestate /\ log' = log]_vars
    /\ [][Answered("POST /gamestate")
             => overlay' = overlay /\ context' = context]_vars

\* the watcher is speaking Red, whose record is the gamestate document and
\* the one line of the log, and the latest request stored a context
C27_Witness ==
    /\ Running
    /\ overlay.mode = "speak"
    /\ gamestate = Stored(P_Red)
    /\ log = << P_Red >>
    /\ response.route = "POST /context"
    /\ response.status[1] = 204
    /\ context = ContextWritten(NoContext, Snapshot("https://a", "picked", NONE))

\* C28: an interrupt raised in the main thread at any position of the
\* push-to-talk loop is caught by the loop's handler: the main thread no
\* longer holds the speech lock, and the process then ends as a normal
\* return, not as a crash.  Nothing is said of the overlay, which keeps the
\* document the interrupt found.
C28_InterruptEndsLoopCleanly ==
    /\ [](pc["main"] = "exiting"
             => result["main"] = "interrupted" /\ lock # "main")
    /\ [][(pc["main"] \in ListenPositions /\ pc'["main"] = "exiting")
             => overlay' = overlay]_vars
    /\ [][(pc["main"] = "exiting" /\ ~Running') => pc'["main"] = "done"]_vars

\* the interrupt came while the main thread was playing its reply: the loop
\* is ending, the lock is free and the speech bubble is still on display
C28_Witness ==
    /\ pc["main"] = "exiting"
    /\ result["main"] = "interrupted"
    /\ lock = NoHolder
    /\ overlay = SpeakDoc(line["main"])
    /\ line["main"] # ""

\* the Victory instruction made from record e alone
VictoryText(e) ==
    VictoryInstruction(
        IF Truthy(e.winner.name) THEN e.winner.name
        ELSE IF e.event # NONE THEN e.event ELSE "Unknown victor",
        IF Truthy(e.winner.reason) THEN e.winner.reason ELSE "")

\* the instructions that can be made from the records of `events` alone
InstructionsFrom(events) ==
    {SingleInstruction(events[1].event), BatchInstruction(Join(Names(events)))}
        \cup {VictoryText(events[i]) : i \in {j \in DOMAIN events : HasWinner(events[j])}}

\* C29: the instruction of a Victory cycle is the one its first winner record
\* gives on its own, so no other record of the batch is named; every record
\* of that batch has its key in the announced set from that cycle on, and a
\* later cycle batches only records whose keys are not in the set and builds
\* its instruction from its own batch: the records passed over are never
\* named.
C29_VictoryNamesFirstWinnerOnly ==
    /\ []((branch = "victory" /\ WellTyped(new_events))
            => /\ instruction = VictoryText(FirstWinner)
               /\ \A i \in DOMAIN new_events :
                     IdentityKey(new_events[i]) \in announced_ids)
    /\ [][(PollStep /\ new_events' # << >>)
            => /\ \A j \in DOMAIN new_events' :
                     IdentityKey(new_events'[j]) \notin announced_ids
               /\ instruction' \in InstructionsFrom(new_events')]_vars

\* one cycle read a plain elimination and two winner records: it declared the
\* first winner, Silver, and marked all three
C29_Witness ==
    /\ branch = "victory"
    /\ new_events = << P_IdRed, P_Silver, P_Gold >>
    /\ instruction = VictoryInstruction("Silver", "")
    /\ announced_ids = {"e1", "Silver", "Final"}

\* the watcher has finished its seeding pass
Seeded == Running /\ pc["watcher"] \notin {"off", "seed"}

\* record r stands in the log after the lines the seeding pass read, and its
\* key is truthy and not in the announced set
PendingRecord(r) ==
    /\ Seeded
    /\ IdentityKey(r) \notin {NONE, ""}
    /\ IdentityKey(r) \notin announced_ids
    /\ \E i \in DOMAIN log : i > seedLen /\ log[i] = r

\* record r is in the batch of the latest poll cycle
Batched(r) == \E j \in DOMAIN new_events : new_events[j] = r

\* the keys of the records posted
LosslessKeys == {IdentityKey(r) : r \in LosslessPayloads}

\* C30 as stated: every record with a truthy key that is not in the announced
\* set, appended after the seeding pass, is eventually in the batch of a poll
\* cycle, and no key is batched twice.
C30_NoRecordLost ==
    /\ \A r \in LosslessPayloads : PendingRecord(r) ~> Batched(r)
    /\ [](\A k \in Keys : placed[k] <= 1)

\* key k is truthy, not in the announced set, and carried by a record that
\* stands in the log after the lines the seeding pass read
PendingKey(k) ==
    /\ Seeded
    /\ k \notin announced_ids
    /\ \E i \in DOMAIN log :
          i > seedLen /\ IsObject(log[i]) /\ IdentityKey(log[i]) = k

\* C30, amended: every truthy key that is not in the announced set, carried
\* by a record appended after the seeding pass, is eventually batched, once
\* and in one poll cycle: the batch holds the first record that carries it.
C30_NoKeyLost ==
    /\ \A k \in LosslessKeys : PendingKey(k) ~> (placed[k] = 1 /\ k \in announced_ids)
    /\ [](\A k \in Keys : placed[k] <= 1)

\* two records with the key e1 and one with the key Red were posted to a
\* seeded watcher; both keys have been batched once, the second e1 record
\* never
C30_Witness ==
    /\ Seeded
    /\ seedLen = 0
    /\ log = << P_IdRed, P_IdBlue, P_Red >>
    /\ placed["e1"] = 1
    /\ placed["Red"] = 1
    /\ announced_ids = {"e1", "Red"}
    /\ scanned = 3

\* the record whose line the server has written in part
PartialRecord == log[Len(log)]

\* the lines of the log that are complete and parse to an object
CompleteKeys == {IdentityKey(log[i]) : i \in {j \in DOMAIN log : IsObject(log[j])}}

\* C31: a poll cycle that reads the log while the last line is written in part
\* batches complete lines only and marks only the keys it batches, so the key
\* of the partial record is not marked unless a complete line carries it; and
\* a cycle that reads the line once it is complete, its key still unmarked,
\* batches the record.
C31_PartialLineNotMarked ==
    [][PollStep =>
          /\ Appending(log) =>
                /\ \A i \in DOMAIN new_events' : IsObject(new_events'[i])
                /\ Len(new_events') <= Len(log) - 1
                /\ announced_ids' \ announced_ids
                       = {IdentityKey(new_events'[i]) : i \in DOMAIN new_events'}
                /\ (IdentityKey(PartialRecord) \notin CompleteKeys
                       => IdentityKey(PartialRecord) \notin announced_ids' \ announced_ids)
          /\ (/\ ~Appending(log)
              /\ scanned = Len(log)
              /\ log # << >>
              /\ IsObject(PartialRecord)
              /\ IdentityKey(PartialRecord) \notin announced_ids \cup {NONE, ""})
             => /\ new_events' = << PartialRecord >>
                /\ IdentityKey(PartialRecord) \in announced_ids']_vars

\* a cycle read the log while the line of the e1 record was written in part:
\* it batched the Red record before it and left e1 unmarked
C31_Witness ==
    /\ Seeded
    /\ log = << P_Red, Partial(P_IdRed) >>
    /\ scanned = 2
    /\ new_events = << P_Red >>
    /\ announced_ids = {"Red"}


\* the server of a process whose watcher has not seeded yet accepts a record
WindowPost ==
    /\ Running
    /\ pc["watcher"] = "seed"
    /\ pc' = pc
    /\ response'.route = "POST /gamestate"
    /\ response'.status = << 204 >>
    /\ << log, gamestate >>' # << log, gamestate >>

\* the watcher's seeding pass
SeedStep == Running /\ pc["watcher"] = "seed" /\ pc'["watcher"] = "poll"

\* C32: a record the server accepts between its start and the watcher's
\* seeding read is at the end of the log that read finds; the seeding pass
\* puts every truthy key of that log into the announced set; and for the rest
\* of the run those keys stay in the set and are never batched, so nothing is
\* announced for them.
C32_PostBeforeSeedIsHistorical ==
    /\ [][WindowPost =>
             log' = Append(log, json_dumps(json_loads(response'.request).value))]_vars
    /\ [][SeedStep =>
             /\ seedLen' = Len(log)
             /\ \A i \in DOMAIN log :
                   (IsObject(log[i]) /\ IdentityKey(log[i]) \notin {NONE, ""})
                       => IdentityKey(log[i]) \in announced_ids']_vars
    /\ [](Seeded =>
             \A i \in 1..seedLen :
                 (IsObject(log[i]) /\ IdentityKey(log[i]) \notin {NONE, ""})
                     => /\ IdentityKey(log[i]) \in announced_ids
                        /\ placed[IdentityKey(log[i])] = 0
                        /\ \A j \in DOMAIN new_events :
                              IdentityKey(new_events[j]) # IdentityKey(log[i]))

\* on a fresh install the e1 record was posted before the seeding read and
\* the Final record after it: the watcher has batched Final alone
C32_Witness ==
    /\ Seeded
    /\ log = << P_IdRed, P_Gold >>
    /\ seedLen = 1
    /\ scanned = 2
    /\ announced_ids = {"e1", "Final"}
    /\ placed["e1"] = 0
    /\ placed["Final"] = 1
    /\ new_events = << P_Gold >>


\* C33: a POST to /context or /gamestate is answered with one status line:
\* 204 when the body was an object and was written, 400 otherwise.
C33_OneStatusPerPost ==
    response.route \in {"POST /context", "POST /gamestate"} =>
        response.status =
            << IF Accepts(json_loads(response.request)) THEN 204 ELSE 400 >>


\* C34: a POST /gamestate that is answered 4xx leaves the gamestate document
\* and the log as they were, also when the append to the log failed; one that
\* is answered 204 has written the posted object to both.
C34_GamestatePostAllOrNothing ==
    [][(/\ << response, gamestate, log >>' # << response, gamestate, log >>
        /\ response'.route = "POST /gamestate")
        => /\ (Is4xx(Head(response'.status))
                  => gamestate' = gamestate /\ log' = log)
           /\ (Head(response'.status) = 204
                  => /\ gamestate' = json_dumps(ObjectOf(response'.request))
                     /\ log' = Append(log, json_dumps(ObjectOf(response'.request))))]_vars


\* C35: whatever overlay state path the process is given, the log the server
\* appends to is the log the watcher reads, so the object of every accepted
\* POST /gamestate is the last line of the watcher's log.
C35_WatcherReadsServerLog ==
    [][(/\ Running
        /\ << response, gamestate, log, hudlog >>' # << response, gamestate, log, hudlog >>
        /\ PostAccepted(response', "POST /gamestate"))
       => /\ GamestateLogPath(overlay_path) = WatcherLogPath
          /\ log' = Append(log, json_dumps(ObjectOf(response'.request)))]_vars


\* thread t is inside _speak_with_overlay: waiting for the lock or holding it
InAnnounce(t) == Running /\ pc[t] \in {"acquire"} \cup Critical

\* C36: a thread that asks for SPEECH_LOCK does not hold it, the holder is
\* always a thread inside the with-block, and, playback and the sleeps
\* returning, every thread that waits for the lock gets it and leaves
\* _speak_with_overlay (by return or by exception) unless the process ends
\* first.
C36_AnnounceNeverDeadlocks ==
    /\ [](\A t \in Threads :
             /\ (Running /\ pc[t] = "acquire") => lock # t
             /\ lock = t => pc[t] \in Critical)
    /\ \A t \in Threads : (Running /\ pc[t] = "acquire") ~> ~InAnnounce(t)

\* the main thread waits for the lock while the watcher, which had to wait
\* for no one, is about to release it
C36_Witness ==
    /\ Running
    /\ pc["main"] = "acquire"
    /\ lock = "watcher"
    /\ pc["watcher"] = "release"


\* C37: the server works on one request at a time, so the lines of different
\* POST /gamestate requests never mix.  Every change of the log either starts
\* a new last line with the object of the request being handled, no line
\* being unfinished, or finishes the last line as exactly that object and is
\* answered 204; the lines before it stay as they are, and only the last line
\* can be unfinished.
C37_LogLinesNotInterleaved ==
    /\ [][log' # log =>
             \/ /\ ~Appending(log)
                /\ log' = Append(log, Partial(ObjectOf(response'.request)))
                /\ response'.status = << >>
             \/ /\ Appending(log)
                /\ response' = [response EXCEPT !.status = << 204 >>]
                /\ Len(log') = Len(log)
                /\ SubSeq(log', 1, Len(log) - 1) = SubSeq(log, 1, Len(log) - 1)
                /\ log'[Len(log)] = json_dumps(ObjectOf(response.request))]_vars
    /\ [](\A i \in DOMAIN log : log[i].json = "partial" => i = Len(log))
    /\ [](Appending(log) => log[Len(log)] = Partial(ObjectOf(response.request)))

\* three requests were handled one after the other on a fresh install: the
\* log holds their three objects, each on a line of its own, in that order
C37_Witness ==
    /\ Running
    /\ log = << P_IdRed, P_IdBlue, P_Red >>
    /\ response.request = P_Red
    /\ response.status = << 204 >>


====
